---- MODULE Spec2Model ----
(***************************************************************************)
(* A model of sgf.py: the SGF text codec (Text.encode, SimpleText.encode), *)
(* the Compose and Number value types and the Property serialize /         *)
(* deserialize protocol with the concrete properties GM, FF, CA, ST, SZ,   *)
(* AP and RU.                                                              *)
(*                                                                         *)
(* A character is a one-symbol string, a str is a sequence of characters   *)
(* and a bytes object is a sequence of byte values (integers 0..255).      *)
(* "U+20AC" stands for the euro sign, a character ISO-8859-1 cannot        *)
(* represent; "U+0060" stands for the grave accent.                        *)
(***************************************************************************)
EXTENDS Integers, Sequences, FiniteSets, TLC

VARIABLES req, pc, elem, prop, wire, back, wire2

vars == <<req, pc, elem, prop, wire, back, wire2>>

(***************************************************************************)
(* Bounds of the model.                                                    *)
(***************************************************************************)
\* Longest raw text handed to the codec.
MaxLen == 3
\* Integers handed to the numeric properties range over -MaxNum .. MaxNum.
MaxNum == 42
\* Longest bracket content of a hand-written wire text.
MaxContent == 2

(***************************************************************************)
(* Characters and bytes.                                                   *)
(***************************************************************************)
\* The printable ASCII characters, code points 32 .. 126, in order.
Printable ==
  << " ", "!", "\"", "#", "$", "%", "&", "'", "(", ")", "*", "+", ",", "-",
     ".", "/", "0", "1", "2", "3", "4", "5", "6", "7", "8", "9", ":", ";",
     "<", "=", ">", "?", "@", "A", "B", "C", "D", "E", "F", "G", "H", "I",
     "J", "K", "L", "M", "N", "O", "P", "Q", "R", "S", "T", "U", "V", "W",
     "X", "Y", "Z", "[", "\\", "]", "^", "_", "U+0060", "a", "b", "c", "d", "e",
     "f", "g", "h", "i", "j", "k", "l", "m", "n", "o", "p", "q", "r", "s",
     "t", "u", "v", "w", "x", "y", "z", "{", "|", "}", "~" >>

Range(f) == {f[i] : i \in DOMAIN f}

\* ord(c): the code point of a character.
Ord(c) ==
  CASE c = "\t" -> 9
    [] c = "\n" -> 10
    [] c = "\f" -> 12
    [] c = "\r" -> 13
    [] c = "U+20AC" -> 8364
    [] OTHER -> 31 + (CHOOSE i \in DOMAIN Printable : Printable[i] = c)

HexDigits == <<"0", "1", "2", "3", "4", "5", "6", "7", "8", "9",
               "a", "b", "c", "d", "e", "f">>

\* str.splitlines() boundaries among the modelled characters:
\* linebreak(c) is len(c.splitlines()[0]) == 0.
linebreak(c) == c \in {"\n", "\r", "\f"}

\* re.match('\s', c, re.UNICODE) among the modelled characters.
whitespace(c) == c \in {" ", "\t", "\n", "\r", "\f"}

\* A result of a call: a value or a raised exception.
Ok(v) == [ok |-> TRUE, err |-> "none", val |-> v]
Raise(e) == [ok |-> FALSE, err |-> e, val |-> <<>>]

\* text.encode("ISO-8859-1"): one byte per character, the code point;
\* UnicodeEncodeError on a character above 255.
StrEncode(text) ==
  IF \E i \in DOMAIN text : Ord(text[i]) > 255
  THEN Raise("UnicodeEncodeError")
  ELSE Ok([i \in DOMAIN text |-> Ord(text[i])])

\* need_escape without the compose case: ":" is never a must-escape.
need_escape_NoColon(compose) == {"]"}

\* need_escape = ":]"[not compose:]
need_escape(compose) ==
  Range(SubSeq(<<":", "]">>, (IF ~compose THEN 1 ELSE 0) + 1, 2))

(***************************************************************************)
(* Text.encode                                                             *)
(***************************************************************************)
RECURSIVE TextLoop(_, _, _, _, _)
TextLoop(s, i, escape, text, compose) ==
  IF i > Len(s) THEN [raised |-> FALSE, escape |-> escape, text |-> text]
  ELSE LET c == s[i] IN
    IF ~escape /\ c = "\\" THEN TextLoop(s, i + 1, TRUE, text, compose)
    ELSE IF ~escape /\ c \in need_escape(compose)
      THEN [raised |-> TRUE, escape |-> escape, text |-> text]
    ELSE IF escape /\ linebreak(c)
      THEN TextLoop(s, i + 1, FALSE, text, compose)
    ELSE IF whitespace(c) /\ ~linebreak(c)
      THEN TextLoop(s, i + 1, FALSE, text \o <<" ">>, compose)
    ELSE TextLoop(s, i + 1, FALSE, text \o <<c>>, compose)

TextEncode(s, compose) ==
  LET r == TextLoop(s, 1, FALSE, <<>>, compose) IN
    IF r.raised THEN Raise("ValueError")
    ELSE IF r.escape THEN Raise("ValueError")
    ELSE StrEncode(r.text)

(***************************************************************************)
(* SimpleText.encode                                                       *)
(***************************************************************************)
RECURSIVE SimpleTextLoop(_, _, _, _, _)
SimpleTextLoop(s, i, escape, text, compose) ==
  IF i > Len(s) THEN [raised |-> FALSE, escape |-> escape, text |-> text]
  ELSE LET c == s[i] IN
    IF ~escape /\ c = "\\" THEN SimpleTextLoop(s, i + 1, TRUE, text, compose)
    ELSE IF ~escape /\ c \in need_escape(compose)
      THEN [raised |-> TRUE, escape |-> escape, text |-> text]
    ELSE IF escape /\ linebreak(c)
      THEN SimpleTextLoop(s, i + 1, FALSE, text, compose)
    ELSE SimpleTextLoop(s, i + 1, FALSE, text \o <<c>>, compose)

\* A substitution that knows the tab only.
SubWhitespace_TabOnly(text) ==
  [i \in DOMAIN text |-> IF text[i] = "\t" THEN " " ELSE text[i]]

\* re.sub('\s', ' ', text, flags=re.UNICODE)
SubWhitespace(text) ==
  [i \in DOMAIN text |-> IF whitespace(text[i]) THEN " " ELSE text[i]]

SimpleTextEncode(s, compose) ==
  LET r == SimpleTextLoop(s, 1, FALSE, <<>>, compose) IN
    IF r.raised THEN Raise("ValueError")
    ELSE IF r.escape THEN Raise("ValueError")
    ELSE StrEncode(SubWhitespace(r.text))

(***************************************************************************)
(* Python values.  An int is [t |-> "int", n], a str [t |-> "str", s], a   *)
(* SimpleText or Text object [t, data, encoding], a Number [t, value], a   *)
(* Compose [t, values] and a property [t |-> "Property", cls, values].     *)
(***************************************************************************)
Int_(n) == [t |-> "int", n |-> n]
Str_(s) == [t |-> "str", s |-> s]

\* The default of the encoding parameters; the only encoding modelled.
DefaultEncoding == "ISO-8859-1"

\* Text.__init__(o): a Text argument hits the setterless property `data`.
TextInit(o) ==
  IF o.t = "Text" THEN Raise("AttributeError")
  ELSE LET r == TextEncode(o.s, FALSE) IN
    IF ~r.ok THEN r
    ELSE Ok([t |-> "Text", data |-> r.val, encoding |-> DefaultEncoding])

\* SimpleText.__init__(o, encoding=None, compose): a SimpleText argument is
\* copied, anything else is encoded.
SimpleTextInit(o, compose) ==
  IF o.t = "SimpleText"
  THEN Ok([t |-> "SimpleText", data |-> o.data, encoding |-> o.encoding])
  ELSE LET r == SimpleTextEncode(o.s, compose) IN
    IF ~r.ok THEN r
    ELSE Ok([t |-> "SimpleText", data |-> r.val,
             encoding |-> DefaultEncoding])

\* Compose.__init__(arg): arg is a Compose or a sequence [t |-> "tuple", items].
ComposeInit(arg) ==
  IF arg.t # "Compose" /\ Len(arg.items) # 2 THEN Raise("ValueError")
  ELSE LET values == IF arg.t = "Compose" THEN arg.values ELSE arg.items
           conv(v) == IF v.t = "SimpleText" THEN SimpleTextInit(v, TRUE)
                      ELSE Ok(v)
           v0 == conv(values[1])
           v1 == conv(values[2])
       IN IF ~v0.ok THEN v0
          ELSE IF ~v1.ok THEN v1
          ELSE Ok([t |-> "Compose", values |-> <<v0.val, v1.val>>])

(***************************************************************************)
(* str() of the values, as "{}".format and int() use them.                 *)
(***************************************************************************)
\* str(n) of an int: canonical decimal, "-" only when negative.
RECURSIVE NatToStr(_)
NatToStr(n) ==
  IF n < 10 THEN <<HexDigits[n + 1]>>
  ELSE NatToStr(n \div 10) \o <<HexDigits[(n % 10) + 1]>>

IntToStr(n) == IF n < 0 THEN <<"-">> \o NatToStr(-n) ELSE NatToStr(n)

\* One byte of repr(bytes) inside the quote character q.
ByteRepr(b, q) ==
  CASE b = 92 -> <<"\\", "\\">>
    [] b = 9 -> <<"\\", "t">>
    [] b = 10 -> <<"\\", "n">>
    [] b = 13 -> <<"\\", "r">>
    [] b = 39 /\ q = "'" -> <<"\\", "'">>
    [] b # 92 /\ b # 39 /\ b >= 32 /\ b <= 126 -> <<Printable[b - 31]>>
    [] b = 39 /\ q # "'" -> <<"'">>
    [] OTHER -> <<"\\", "x", HexDigits[(b \div 16) + 1],
                  HexDigits[(b % 16) + 1]>>

RECURSIVE BytesBody(_, _, _)
BytesBody(data, i, q) ==
  IF i > Len(data) THEN <<>>
  ELSE ByteRepr(data[i], q) \o BytesBody(data, i + 1, q)

\* str(b) of a bytes object is its repr: b'...', or b"..." when the data
\* holds a single quote and no double quote.
BytesStr(data) ==
  LET q == IF 39 \in Range(data) /\ 34 \notin Range(data) THEN "\"" ELSE "'"
  IN <<"b", q>> \o BytesBody(data, 1, q) \o <<q>>

\* str(v) of a value that is not a Compose.
AtomStr(v) ==
  CASE v.t = "int" -> IntToStr(v.n)
    [] v.t = "str" -> v.s
    [] v.t = "Number" -> IntToStr(v.value)
    [] v.t = "SimpleText" -> BytesStr(v.data)

\* Compose.serialize: "{}:{}".format(values[0], values[1])
ComposeSerialize(c) ==
  AtomStr(c.values[1]) \o <<":">> \o AtomStr(c.values[2])

ValueStr(v) == IF v.t = "Compose" THEN ComposeSerialize(v) ELSE AtomStr(v)

\* A comparison that never finds two members equal.
PyEq_Never(a, b) == FALSE

\* a == b on two list elements: ints and strs compare by value, objects of
\* classes without __eq__ by identity (the two members are distinct objects).
PyEq(a, b) ==
  /\ a.t = b.t
  /\ CASE a.t = "int" -> a.n = b.n
       [] a.t = "str" -> a.s = b.s
       [] OTHER -> FALSE

(***************************************************************************)
(* int(text)                                                               *)
(***************************************************************************)
\* str.lstrip() and str.rstrip(): drop the whitespace at one end.
RECURSIVE lstrip(_)
lstrip(s) ==
  IF Len(s) > 0 /\ whitespace(s[1]) THEN lstrip(Tail(s)) ELSE s

RECURSIVE rstrip(_)
rstrip(s) ==
  IF Len(s) > 0 /\ whitespace(s[Len(s)])
  THEN rstrip(SubSeq(s, 1, Len(s) - 1)) ELSE s

IsDigit(c) == c \in {HexDigits[d] : d \in 1..10}

DigitVal(c) == (CHOOSE d \in 1..10 : HexDigits[d] = c) - 1

RECURSIVE DigitsVal(_, _)
DigitsVal(ds, acc) ==
  IF ds = <<>> THEN acc
  ELSE DigitsVal(Tail(ds), IF Head(ds) = "_" THEN acc
                           ELSE 10 * acc + DigitVal(Head(ds)))

\* int(s) on a str: surrounding whitespace is ignored, then an optional
\* sign and decimal digits, single underscores allowed between digits;
\* anything else is a ValueError.
IntParse(s) ==
  LET u == rstrip(lstrip(s))
      signed == Len(u) > 0 /\ u[1] \in {"+", "-"}
      b == IF signed THEN Tail(u) ELSE u
      wellformed ==
        /\ Len(b) > 0
        /\ IsDigit(b[1])
        /\ IsDigit(b[Len(b)])
        /\ \A i \in DOMAIN b :
             \/ IsDigit(b[i])
             \/ b[i] = "_" /\ IsDigit(b[i - 1]) /\ IsDigit(b[i + 1])
  IN IF ~wellformed THEN Raise("ValueError")
     ELSE IF signed /\ u[1] = "-" THEN Ok(-DigitsVal(b, 0))
     ELSE Ok(DigitsVal(b, 0))

(***************************************************************************)
(* The properties.                                                         *)
(***************************************************************************)
\* prop_ident of each class.
prop_ident(cls) ==
  CASE cls = "AP" -> <<"A", "P">>
    [] cls = "CA" -> <<"C", "A">>
    [] cls = "GM" -> <<"G", "M">>
    [] cls = "FF" -> <<"F", "F">>
    [] cls = "RU" -> <<"R", "U">>
    [] cls = "ST" -> <<"S", "T">>
    [] cls = "SZ" -> <<"S", "Z">>

Property(cls, values) == [t |-> "Property", cls |-> cls, values |-> values]

\* A game type check that is off by one at the upper end.
GMValid_OffByOne(number) == 1 <= number /\ number <= 41

\* GM._validate_number, FF._validate_number, ST._validate_number
GMValid(number) == 1 <= number /\ number <= 40
FFValid(number) == 1 <= number /\ number <= 4
STValid(number) == 0 <= number /\ number <= 3

GMInit(number) ==
  IF ~GMValid(number) THEN Raise("ValueError")
  ELSE Ok(Property("GM", <<Int_(number)>>))

FFInit(number) ==
  IF ~FFValid(number) THEN Raise("ValueError")
  ELSE Ok(Property("FF", <<Int_(number)>>))

STInit(number) ==
  IF ~STValid(number) THEN Raise("ValueError")
  ELSE Ok(Property("ST", <<Int_(number)>>))

\* CA.__init__(charset): charset is a str.
CAInit(charset) ==
  LET r == SimpleTextInit(charset, FALSE) IN
    IF ~r.ok THEN r ELSE Ok(Property("CA", <<r.val>>))

\* Number.__init__(o)
NumberInit(o) ==
  CASE o.t = "Number" -> Ok([t |-> "Number", value |-> o.value])
    [] o.t = "str" -> LET r == IntParse(o.s) IN
                        IF ~r.ok THEN r
                        ELSE Ok([t |-> "Number", value |-> r.val])
    [] OTHER -> Ok([t |-> "Number", value |-> o.n])

\* SZ.__init__(o)
SZInit(o) ==
  IF o.t = "Compose"
  THEN IF PyEq(o.values[1], o.values[2]) THEN Raise("ValueError")
       ELSE Ok(Property("SZ", <<o>>))
  ELSE LET r == NumberInit(o) IN
         IF ~r.ok THEN r ELSE Ok(Property("SZ", <<r.val>>))

\* Property.serialize
RECURSIVE SerializeValues(_, _)
SerializeValues(values, i) ==
  IF i > Len(values) THEN <<>>
  ELSE <<"[">> \o ValueStr(values[i]) \o <<"]">>
       \o SerializeValues(values, i + 1)

serialize(p) == prop_ident(p.cls) \o SerializeValues(p.values, 1)

\* data.startswith(prefix)
startswith(data, prefix) ==
  Len(data) >= Len(prefix) /\ SubSeq(data, 1, Len(prefix)) = prefix

\* re.match('\[([+-]?\d+|[^\]]*)\]', data): the text between a leading "["
\* and the first "]" after it; both alternatives isolate the same group.
MatchValue(data) ==
  IF Len(data) = 0 \/ data[1] # "[" \/ \A j \in 2..Len(data) : data[j] # "]"
  THEN Raise("NoMatch")
  ELSE LET j == CHOOSE k \in 2..Len(data) :
                  data[k] = "]" /\ \A m \in 2..(k - 1) : data[m] # "]"
       IN Ok(SubSeq(data, 2, j - 1))

\* Property.deserialize without the lstrip() after the identifier.
PropertyDeserialize_NoStrip(cls, data) ==
  LET d1 == lstrip(data) IN
    IF ~startswith(d1, prop_ident(cls)) THEN Raise("ValueError")
    ELSE LET d2 == SubSeq(d1, Len(prop_ident(cls)) + 1, Len(d1))
             m == MatchValue(d2)
         IN IF ~m.ok THEN Raise("ValueError") ELSE Ok(m.val)

\* Property.deserialize: the raw text of the first bracketed value.
PropertyDeserialize(cls, data) ==
  LET d1 == lstrip(data) IN
    IF ~startswith(d1, prop_ident(cls)) THEN Raise("ValueError")
    ELSE LET d2 == lstrip(SubSeq(d1, Len(prop_ident(cls)) + 1, Len(d1)))
             m == MatchValue(d2)
         IN IF ~m.ok THEN Raise("ValueError") ELSE Ok(m.val)

\* cls.deserialize(data): GM, FF and CA override it and build a property;
\* the other classes inherit Property.deserialize and return its str.
deserialize(cls, data) ==
  LET g == PropertyDeserialize(cls, data) IN
    IF ~g.ok THEN g
    ELSE IF cls = "CA" THEN CAInit(Str_(g.val))
    ELSE IF cls \in {"GM", "FF"}
      THEN LET number == IntParse(g.val) IN
             IF ~number.ok THEN number
             ELSE IF cls = "GM" THEN GMInit(number.val)
             ELSE FFInit(number.val)
    ELSE Ok(Str_(g.val))

(***************************************************************************)
(* The calls a client makes.  A behaviour is one call chain: the call of   *)
(* req, then for a property built successfully serialize(), then           *)
(* cls.deserialize() of that text and serialize() of what it returned.     *)
(***************************************************************************)
\* All sequences over S of length at most n.
RECURSIVE SeqsUpTo(_, _)
SeqsUpTo(S, n) ==
  IF n = 0 THEN {<<>>}
  ELSE LET shorter == SeqsUpTo(S, n - 1) IN
    shorter \cup {Append(x, c) : x \in shorter, c \in S}

\* Raw texts handed to the codec.
Alphabet == {"\\", "]", ":", "a", "\n", "\r", "\t", " ", "U+20AC"}
RawTexts == SeqsUpTo(Alphabet, MaxLen)

\* The line breaks of the Text docstring: CR, LF, CRLF and LFCR.
Breaks == {<<"\r">>, <<"\n">>, <<"\r", "\n">>, <<"\n", "\r">>}

\* Raw texts with an escaped line break between two plain stretches.
SoftBreakTexts ==
  {pre \o <<"\\">> \o br \o post :
     pre \in SeqsUpTo({"a", "b"}, 1), br \in Breaks,
     post \in SeqsUpTo({"a", "b"}, 1)}

CodecTexts == RawTexts \cup SoftBreakTexts

Nums == (-MaxNum)..MaxNum

\* Raw texts of the members of a Compose.
MemberTexts == SeqsUpTo({":", "\\", "a"}, MaxLen - 1)

\* The SimpleText objects a client can hold, with the raw text of each.
MemberSources ==
  {[raw |-> s, obj |-> SimpleTextInit(Str_(s), FALSE).val] :
     s \in {x \in MemberTexts : SimpleTextInit(Str_(x), FALSE).ok}}

Tuple(items) == [t |-> "tuple", items |-> items]

\* Texts handed to CA.
CharsetTexts ==
  SeqsUpTo({"U", "-", "8", "'"}, MaxLen)
  \cup SeqsUpTo(Alphabet, MaxLen - 1)
  \cup {<<"U", "T", "F", "-", "8">>,
        <<"I", "S", "O", "-", "8", "8", "5", "9", "-", "1">>}

Classes == {"AP", "CA", "GM", "FF", "RU", "ST", "SZ"}

\* Whitespace runs put before the identifier and before the bracket.
Gaps == {<<>>, <<" ">>, <<"\t", "\n">>}

\* Texts left after the closing bracket.
Trailers == {<<>>, <<"]">>, <<" ", "[", "1", "]">>}

\* What a wire text that is not a canonical one starts with.
Heads(cls) ==
  {prop_ident(cls), <<prop_ident(cls)[1]>>,
   prop_ident(IF cls = "GM" THEN "FF" ELSE "GM"),
   <<"x">> \o prop_ident(cls)}

\* Bracket contents of those wire texts.
Contents == SeqsUpTo({"0", "4", "-", "a", " ", "_"}, MaxContent)

\* No call made yet.
Pending == Raise("pending")

\* The codec calls: Text.encode, SimpleText.encode, Text(o), SimpleText(o).
InitCodec ==
  \/ \E o \in {"Text.encode", "SimpleText.encode"}, s \in CodecTexts,
        c \in BOOLEAN :
       req = [op |-> o, s |-> s, compose |-> c]
  \/ \E s \in CodecTexts : req = [op |-> "Text", o |-> Str_(s)]
  \/ req = [op |-> "Text", o |-> TextInit(Str_(<<"a">>)).val]
  \/ \E s \in CodecTexts, c \in BOOLEAN :
       req = [op |-> "SimpleText", o |-> Str_(s), compose |-> c]
  \/ \E x \in MemberSources, c \in BOOLEAN :
       req = [op |-> "SimpleText", o |-> x.obj, compose |-> c]

\* Compose(arg); src holds the raw texts the SimpleText members came from.
InitCompose ==
  \/ \E a \in Nums, b \in Nums :
       req = [op |-> "Compose", cls |-> "SZ",
              arg |-> Tuple(<<Int_(a), Int_(b)>>), src |-> <<>>]
  \/ \E x \in MemberSources, y \in MemberSources :
       req = [op |-> "Compose", cls |-> "SZ",
              arg |-> Tuple(<<x.obj, y.obj>>), src |-> <<x.raw, y.raw>>]
  \/ \E x \in MemberSources :
       req = [op |-> "Compose", cls |-> "SZ",
              arg |-> Tuple(<<x.obj, Int_(1)>>), src |-> <<x.raw>>]
  \/ \E items \in {<<>>, <<Int_(1)>>, <<Int_(1), Int_(2), Int_(3)>>,
                   <<Str_(<<"a">>), Str_(<<"a">>)>>,
                   <<Str_(<<"a">>), Int_(1)>>} :
       req = [op |-> "Compose", cls |-> "SZ", arg |-> Tuple(items),
              src |-> <<>>]
  \/ \E items \in {<<Int_(1), Int_(2)>>, <<Int_(2), Int_(2)>>} :
       req = [op |-> "Compose", cls |-> "SZ",
              arg |-> ComposeInit(Tuple(items)).val, src |-> <<>>]

\* The property constructors.
InitProperty ==
  \/ \E o \in {"GM", "FF", "ST"}, n \in Nums :
       req = [op |-> o, cls |-> o, number |-> n]
  \/ \E s \in CharsetTexts :
       req = [op |-> "CA", cls |-> "CA", charset |-> Str_(s)]
  \/ \E n \in Nums : req = [op |-> "SZ", cls |-> "SZ", o |-> Int_(n)]
  \/ \E s \in SeqsUpTo({"1", "9", "-", "a"}, 2) :
       req = [op |-> "SZ", cls |-> "SZ", o |-> Str_(s)]
  \/ req = [op |-> "SZ", cls |-> "SZ", o |-> NumberInit(Int_(19)).val]

\* cls.deserialize(data) of a wire text: a bracketed canonical integer
\* after the identifier, or a text with a wrong identifier, a missing
\* bracket or another bracket content.
InitDeserialize ==
  \/ \E cls \in Classes, w1 \in Gaps, w2 \in Gaps, n \in Nums,
        tr \in Trailers :
       req = [op |-> "deserialize", cls |-> cls,
              data |-> w1 \o prop_ident(cls) \o w2 \o <<"[">>
                       \o IntToStr(n) \o <<"]">> \o tr]
  \/ \E cls \in Classes, w2 \in {<<>>, <<"\t">>},
        open \in {<<>>, <<"[">>}, close \in {<<>>, <<"]">>, <<"]", "]">>},
        c \in Contents :
       \E h \in Heads(cls) :
         req = [op |-> "deserialize", cls |-> cls,
                data |-> h \o w2 \o open \o c \o close]

Init ==
  /\ \/ InitCodec
     \/ InitCompose
     \/ InitProperty
     \/ InitDeserialize
  /\ pc = IF req.op = "deserialize" THEN "serialized" ELSE "call"
  /\ wire = IF req.op = "deserialize" THEN req.data ELSE <<>>
  /\ elem = Pending
  /\ prop = Pending
  /\ back = Pending
  /\ wire2 = <<>>

\* Text.encode(s, compose=...)
TextEncodeCall ==
  /\ pc = "call" /\ req.op = "Text.encode"
  /\ elem' = TextEncode(req.s, req.compose)
  /\ pc' = "done"
  /\ UNCHANGED <<req, prop, wire, back, wire2>>

\* SimpleText.encode(s, compose=...)
SimpleTextEncodeCall ==
  /\ pc = "call" /\ req.op = "SimpleText.encode"
  /\ elem' = SimpleTextEncode(req.s, req.compose)
  /\ pc' = "done"
  /\ UNCHANGED <<req, prop, wire, back, wire2>>

\* Text(o)
TextInitCall ==
  /\ pc = "call" /\ req.op = "Text"
  /\ elem' = TextInit(req.o)
  /\ pc' = "done"
  /\ UNCHANGED <<req, prop, wire, back, wire2>>

\* SimpleText(o, compose=...)
SimpleTextInitCall ==
  /\ pc = "call" /\ req.op = "SimpleText"
  /\ elem' = SimpleTextInit(req.o, req.compose)
  /\ pc' = "done"
  /\ UNCHANGED <<req, prop, wire, back, wire2>>

\* Compose(arg)
ComposeInitCall ==
  /\ pc = "call" /\ req.op = "Compose"
  /\ elem' = ComposeInit(req.arg)
  /\ pc' = IF elem'.ok THEN "composed" ELSE "done"
  /\ UNCHANGED <<req, prop, wire, back, wire2>>

\* SZ(c) of the Compose just built.
SZComposeCall ==
  /\ pc = "composed"
  /\ prop' = SZInit(elem.val)
  /\ pc' = IF prop'.ok THEN "built" ELSE "done"
  /\ UNCHANGED <<req, elem, wire, back, wire2>>

\* SZ(o) of an int, a str or a Number.
SZInitCall ==
  /\ pc = "call" /\ req.op = "SZ"
  /\ prop' = SZInit(req.o)
  /\ pc' = IF prop'.ok THEN "built" ELSE "done"
  /\ UNCHANGED <<req, elem, wire, back, wire2>>

GMInitCall ==
  /\ pc = "call" /\ req.op = "GM"
  /\ prop' = GMInit(req.number)
  /\ pc' = IF prop'.ok THEN "built" ELSE "done"
  /\ UNCHANGED <<req, elem, wire, back, wire2>>

FFInitCall ==
  /\ pc = "call" /\ req.op = "FF"
  /\ prop' = FFInit(req.number)
  /\ pc' = IF prop'.ok THEN "built" ELSE "done"
  /\ UNCHANGED <<req, elem, wire, back, wire2>>

STInitCall ==
  /\ pc = "call" /\ req.op = "ST"
  /\ prop' = STInit(req.number)
  /\ pc' = IF prop'.ok THEN "built" ELSE "done"
  /\ UNCHANGED <<req, elem, wire, back, wire2>>

CAInitCall ==
  /\ pc = "call" /\ req.op = "CA"
  /\ prop' = CAInit(req.charset)
  /\ pc' = IF prop'.ok THEN "built" ELSE "done"
  /\ UNCHANGED <<req, elem, wire, back, wire2>>

\* p.serialize() of the property just built.
SerializeCall ==
  /\ pc = "built"
  /\ wire' = serialize(prop.val)
  /\ pc' = "serialized"
  /\ UNCHANGED <<req, elem, prop, back, wire2>>

\* cls.deserialize(wire) of a wire text, given or just serialized.
DeserializeCall ==
  /\ pc = "serialized"
  /\ back' = deserialize(req.cls, wire)
  /\ pc' = "parsed"
  /\ UNCHANGED <<req, elem, prop, wire, wire2>>

\* q.serialize() of the property deserialize returned.
ReserializeCall ==
  /\ pc = "parsed" /\ back.ok /\ back.val.t = "Property"
  /\ wire2' = serialize(back.val)
  /\ pc' = "done"
  /\ UNCHANGED <<req, elem, prop, wire, back>>

Next ==
  \/ TextEncodeCall
  \/ SimpleTextEncodeCall
  \/ TextInitCall
  \/ SimpleTextInitCall
  \/ ComposeInitCall
  \/ SZComposeCall
  \/ SZInitCall
  \/ GMInitCall
  \/ FFInitCall
  \/ STInitCall
  \/ CAInitCall
  \/ SerializeCall
  \/ DeserializeCall
  \/ ReserializeCall

Spec == Init /\ [][Next]_vars

(***************************************************************************)
(* Properties of the codec.                                                *)
(***************************************************************************)
\* The escape flag before position i of s (i = Len(s) + 1: after the scan):
\* set exactly when an odd number of backslashes ends right before i.
BackslashRun(s, i) ==
  Cardinality({k \in 1..(i - 1) : \A m \in k..(i - 1) : s[m] = "\\"})

FlagBefore(s, i) == BackslashRun(s, i) % 2 = 1

EncodeMustFail(s, compose) ==
  \/ \E i \in DOMAIN s :
       /\ s[i] = "]" \/ (compose /\ s[i] = ":")
       /\ ~FlagBefore(s, i)
  \/ FlagBefore(s, Len(s) + 1)

Representable(s) == \A i \in DOMAIN s : s[i] # "U+20AC"

EncodeDone ==
  pc = "done" /\ req.op \in {"Text.encode", "SimpleText.encode"}

\* C1: on a text of representable characters Text.encode and
\* SimpleText.encode raise an error exactly when an unescaped "]" (with
\* compose also an unescaped ":") is met or the text ends with the escape
\* flag set; otherwise they return bytes.
C1_EncodeFailsExactly ==
  (EncodeDone /\ Representable(req.s)) =>
    /\ ~elem.ok <=> EncodeMustFail(req.s, req.compose)
    /\ ~elem.ok => elem.err = "ValueError"

\* A lone trailing backslash after an escaped "]" was rejected.
C1_Witness ==
  /\ EncodeDone
  /\ req.s = <<"\\", "]", "\\">>
  /\ EncodeMustFail(req.s, req.compose)
  /\ ~elem.ok

\* C2: "a" + backslash + line break + "b" encodes to exactly "ab" for each
\* of the breaks CR, LF, CRLF and LFCR, in both encoders.
C2_SoftBreakRemoved ==
  (EncodeDone /\ \E br \in Breaks : req.s = <<"a", "\\">> \o br \o <<"b">>)
    => (elem.ok /\ elem.val = <<97, 98>>)

\* The stored bytes d are well escaped: scanning with the escape flag, no
\* "]" is met with the flag clear and no backslash is left dangling.
WellEscaped(d) ==
  LET run(i) == Cardinality({k \in 1..(i - 1) :
                               \A m \in k..(i - 1) : d[m] = 92})
  IN /\ \A i \in DOMAIN d : d[i] = 93 => run(i) % 2 = 1
     /\ run(Len(d) + 1) % 2 = 0

\* C3: the data of a Text or SimpleText built with compose off from raw
\* text holds no unescaped "]" and no unescaped backslash.
C3_StoredFormEscaped ==
  ( /\ pc = "done"
    /\ req.op \in {"Text", "SimpleText"}
    /\ req.o.t = "str"
    /\ req.op = "SimpleText" => ~req.compose
    /\ elem.ok )
  => WellEscaped(elem.val.data)

\* What SimpleText.encode is to return for s: the characters of s without
\* the escaping backslashes and the escaped line breaks, every whitespace
\* character as a space.
SimpleExpected(s) ==
  LET keep(i) == /\ ~(s[i] = "\\" /\ ~FlagBefore(s, i))
                 /\ ~(FlagBefore(s, i) /\ s[i] \in {"\n", "\r", "\f"})
      idx == SelectSeq([i \in 1..Len(s) |-> i], keep)
  IN [k \in DOMAIN idx |->
        IF s[idx[k]] \in {" ", "\t", "\n", "\r", "\f"} THEN 32
        ELSE Ord(s[idx[k]])]

HasBareColon(s) ==
  \E i \in DOMAIN s : s[i] = ":" /\ (i = 1 \/ s[i - 1] # "\\")

\* C5: Compose of a SimpleText that came from raw text with a ":" not
\* preceded by a backslash raises an error.
C5_ComposeRejectsBareColon ==
  ( /\ req.op = "Compose"
    /\ elem # Pending
    /\ \E k \in DOMAIN req.src : HasBareColon(req.src[k]) )
  => ~elem.ok

\* The value of a property obeys the range rule of its class.
InRange(cls, n) ==
  CASE cls = "GM" -> n \in 1..40
    [] cls = "FF" -> n \in 1..4
    [] cls = "ST" -> n \in 0..3
    [] OTHER -> TRUE

\* C6: deserialize of every property class raises an error or returns a
\* property of that class with a validated value, never a raw string.
C6_DeserializeTyped ==
  (back # Pending /\ back.ok) =>
    /\ back.val.t = "Property"
    /\ back.val.cls = req.cls
    /\ \A i \in DOMAIN back.val.values :
         back.val.values[i].t = "int"
           => InRange(req.cls, back.val.values[i].n)

\* The decimal numeral of n, -99 <= n <= 99.
DecimalDigits == <<"0", "1", "2", "3", "4", "5", "6", "7", "8", "9">>

Numeral(n) ==
  LET m == IF n < 0 THEN -n ELSE n
      digits == IF m < 10 THEN <<DecimalDigits[m + 1]>>
                ELSE <<DecimalDigits[(m \div 10) + 1],
                       DecimalDigits[(m % 10) + 1]>>
  IN IF n < 0 THEN <<"-">> \o digits ELSE digits

Ident(cls) ==
  CASE cls = "GM" -> <<"G", "M">>
    [] cls = "FF" -> <<"F", "F">>
    [] cls = "ST" -> <<"S", "T">>
    [] cls = "CA" -> <<"C", "A">>
    [] cls = "SZ" -> <<"S", "Z">>

\* C7: GM(n) is built exactly for 1 <= n <= 40, FF(n) for 1 <= n <= 4 and
\* ST(n) for 0 <= n <= 3, otherwise a ValueError is raised and there is no
\* property; serialize() of the property is the identifier and "[n]".
C7_RangeAndSerialize ==
  (req.op \in {"GM", "FF", "ST"} /\ pc # "call") =>
    /\ prop.ok <=> InRange(req.op, req.number)
    /\ ~prop.ok => (prop.err = "ValueError" /\ pc = "done" /\ wire = <<>>)
    /\ (prop.ok /\ pc # "built") =>
         wire = Ident(req.op) \o <<"[">> \o Numeral(req.number) \o <<"]">>

\* GM(40), the largest game type, was built and serialized as "GM[40]".
C7_Witness ==
  /\ req.op = "GM" /\ req.number = 40
  /\ pc = "serialized"
  /\ wire = <<"G", "M", "[", "4", "0", "]">>

Blank(c) == c \in {" ", "\t", "\n", "\r", "\f"}

\* data is blanks, the identifier, blanks, "[n]" and any text.
IsWireOf(data, cls, n) ==
  \E i \in 0..Len(data), j \in 0..Len(data) :
    /\ i + 2 <= j
    /\ \A m \in 1..i : Blank(data[m])
    /\ SubSeq(data, i + 1, i + 2) = Ident(cls)
    /\ \A m \in (i + 3)..j : Blank(data[m])
    /\ LET v == <<"[">> \o Numeral(n) \o <<"]">> IN
         /\ j + Len(v) <= Len(data)
         /\ SubSeq(data, j + 1, j + Len(v)) = v

\* The text after the leading blanks starts with the identifier, and after
\* the blanks that follow it comes "[", with a "]" somewhere behind.
HasBracketedValue(data, cls) ==
  \E i \in 0..Len(data), j \in 0..Len(data) :
    /\ i + 2 <= j /\ j < Len(data)
    /\ \A m \in 1..i : Blank(data[m])
    /\ SubSeq(data, i + 1, i + 2) = Ident(cls)
    /\ \A m \in (i + 3)..j : Blank(data[m])
    /\ data[j + 1] = "["
    /\ \E k \in (j + 2)..Len(data) : data[k] = "]"

\* C8: GM and FF deserialize blanks + identifier + blanks + "[n]" + any
\* text to the value n when n is in range, and raise an error when the
\* identifier or the bracketed value is missing.
C8_DeserializeWire ==
  (req.op = "deserialize" /\ req.cls \in {"GM", "FF"} /\ back # Pending) =>
    /\ \A n \in Nums :
         (InRange(req.cls, n) /\ IsWireOf(req.data, req.cls, n)) =>
           /\ back.ok
           /\ back.val = [t |-> "Property", cls |-> req.cls,
                          values |-> <<[t |-> "int", n |-> n]>>]
    /\ ~HasBracketedValue(req.data, req.cls) => ~back.ok

\* FF.deserialize("\t\nFF [3]]") returned FF(3).
C8_Witness ==
  /\ req.op = "deserialize" /\ req.cls = "FF"
  /\ req.data = <<"\t", "\n", "F", "F", " ", "[", "3", "]", "]">>
  /\ back.ok
  /\ back.val.values = <<[t |-> "int", n |-> 3]>>

IsIntPair(arg) ==
  /\ arg.t = "tuple"
  /\ Len(arg.items) = 2
  /\ arg.items[1].t = "int"
  /\ arg.items[2].t = "int"

\* C9: Compose((a, b)) of two ints is always built; SZ of it raises an
\* error exactly when a = b and otherwise serializes as "SZ[a:b]".
C9_ComposeAndSZ ==
  (req.op = "Compose" /\ IsIntPair(req.arg) /\ pc # "call") =>
    LET a == req.arg.items[1].n
        b == req.arg.items[2].n
    IN /\ elem.ok
       /\ elem.val.values = req.arg.items
       /\ pc # "composed" =>
            /\ prop.ok <=> a # b
            /\ ~prop.ok => (prop.err = "ValueError" /\ pc = "done")
       /\ (prop.ok /\ pc # "built") =>
            wire = <<"S", "Z", "[">> \o Numeral(a) \o <<":">> \o Numeral(b)
                   \o <<"]">>

\* SZ(Compose((19, 19))) was refused after Compose((19, 19)) was built.
C9_Witness ==
  /\ req.op = "Compose" /\ IsIntPair(req.arg)
  /\ req.arg.items[1].n = 19 /\ req.arg.items[2].n = 19
  /\ pc = "done"
  /\ elem.ok
  /\ ~prop.ok

\* Text without must-escape characters, line breaks and other whitespace.
PlainText(s) ==
  \A i \in DOMAIN s : s[i] \notin {"]", "\\", ":", "\n", "\r", "\f", "\t", " "}

\* C10: for GM, FF and CA (of plain text) deserialize(p.serialize()) is a
\* property with the same serialization and the same value as p, and
\* CA(text) serializes as "CA[" + text + "]".
C10_RoundTrip ==
  ( /\ req.op \in {"GM", "FF", "CA"}
    /\ req.op = "CA" => PlainText(req.charset.s)
    /\ prop.ok )
  => /\ (req.op = "CA" /\ pc # "built") =>
          wire = <<"C", "A", "[">> \o req.charset.s \o <<"]">>
     /\ pc \in {"parsed", "done"} =>
          /\ back.ok
          /\ back.val.values = prop.val.values
     /\ pc = "done" => wire2 = wire

====
